---- MODULE Spec2Model ----
(***************************************************************************)
(* Model of bisaya-speak-ai-server: the pronunciation-scoring engine       *)
(* (AudioProcessor.calculate_dtw_similarity, compare_pronunciation and     *)
(* generate_feedback, src/audio_processor.py), the conversation engine     *)
(* (src/conversation_engine.py) and the endpoints of src/main.py.          *)
(*                                                                         *)
(* Numbers.  The code computes on Python floats.  The model computes on    *)
(* exact rationals [n, d] in lowest terms with d > 0, so a score such as   *)
(* 66.666... is kept exactly and round(x, k) is modelled by what it does   *)
(* (round to k decimals, ties to even).  Floating-point representation     *)
(* error (about 1e-14 here) is not modelled.                               *)
(*                                                                         *)
(* Features.  A feature set is what extract_features returns, reduced to   *)
(* the fields the scoring code reads: pitch_mean, rms_mean, duration and   *)
(* mfcc.  The mfcc matrix is modelled frame-major as a sequence of frames; *)
(* a frame is the integer value of its first coefficient, the other 12     *)
(* coefficients being equal on both sides, so the Euclidean distance of    *)
(* two frames is the absolute difference.                                  *)
(***************************************************************************)
EXTENDS Integers, Sequences, FiniteSets, TLC

VARIABLES request, response, audio_processor, conversation_engine, now,
          reference_dir

vars == <<request, response, audio_processor, conversation_engine, now, reference_dir>>

(***************************************************************************)
(* Exact rational arithmetic (Python float arithmetic without rounding     *)
(* error).                                                                 *)
(***************************************************************************)
Abs(x) == IF x < 0 THEN -x ELSE x

RECURSIVE GCD(_, _)
GCD(a, b) == IF b = 0 THEN a ELSE GCD(b, a % b)

\* The rational n/d (d > 0) in lowest terms.
Frac(n, d) == LET g == GCD(Abs(n), d) IN [n |-> n \div g, d |-> d \div g]

R(i) == [n |-> i, d |-> 1]

RAdd(a, b) == Frac(a.n * b.d + b.n * a.d, a.d * b.d)
RSub(a, b) == Frac(a.n * b.d - b.n * a.d, a.d * b.d)
RMul(a, b) == Frac(a.n * b.n, a.d * b.d)
\* a / b for b > 0
RDiv(a, b) == Frac(a.n * b.d, a.d * b.n)
RAbs(a) == [n |-> Abs(a.n), d |-> a.d]

\* a < b and a <= b: the integer parts first, then the fractional parts, which
\* keeps the products small.
Lt(a, b) ==
    LET fa == a.n \div a.d
        fb == b.n \div b.d
    IN \/ fa < fb
       \/ fa = fb /\ (a.n % a.d) * b.d < (b.n % b.d) * a.d
Le(a, b) == a = b \/ Lt(a, b)
Gt(a, b) == Lt(b, a)
Ge(a, b) == Le(b, a)

\* Python's max(a, b) and min(a, b)
RMax(a, b) == IF Gt(b, a) THEN b ELSE a
RMin(a, b) == IF Lt(b, a) THEN b ELSE a

Pow10(k) == IF k = 1 THEN 10 ELSE 100

\* Python's round(x, k) for k in {1, 2} and x >= 0: to k decimals, ties to even.
Round(x, k) ==
    LET s == Pow10(k)
        num == x.n * s
        q == num \div x.d
        rem == num % x.d
        up == \/ 2 * rem > x.d
              \/ 2 * rem = x.d /\ q % 2 = 1
    IN Frac(IF up THEN q + 1 ELSE q, s)

(***************************************************************************)
(* The alignment distance.  calculate_dtw_similarity calls                 *)
(* fastdtw(user_mfcc.T, reference_mfcc.T, dist=euclidean) with the         *)
(* library's default radius 1.  For sequences of up to 4 frames the        *)
(* radius-1 window covers the whole cost matrix, so the library returns    *)
(* the exact dynamic-time-warping distance, which is what is computed      *)
(* here: the cheapest monotonic path from (1, 1) to (Len(x), Len(y)).      *)
(***************************************************************************)
euclidean(a, b) == Abs(a - b)

Min3(a, b, c) == IF a <= b /\ a <= c THEN a ELSE IF b <= c THEN b ELSE c

RECURSIVE DtwCost(_, _, _, _)
DtwCost(x, y, i, j) ==
    LET c == euclidean(x[i], y[j])
    IN IF i = 1 /\ j = 1 THEN c
       ELSE IF i = 1 THEN c + DtwCost(x, y, 1, j - 1)
       ELSE IF j = 1 THEN c + DtwCost(x, y, i - 1, 1)
       ELSE c + Min3(DtwCost(x, y, i - 1, j),
                     DtwCost(x, y, i, j - 1),
                     DtwCost(x, y, i - 1, j - 1))

\* The cumulative cost without the diagonal step (i - 1, j - 1).
RECURSIVE DtwCostNoDiagonal(_, _, _, _)
DtwCostNoDiagonal(x, y, i, j) ==
    LET c == euclidean(x[i], y[j])
    IN IF i = 1 /\ j = 1 THEN c
       ELSE IF i = 1 THEN c + DtwCostNoDiagonal(x, y, 1, j - 1)
       ELSE IF j = 1 THEN c + DtwCostNoDiagonal(x, y, i - 1, 1)
       ELSE c + Min3(DtwCostNoDiagonal(x, y, i - 1, j),
                     DtwCostNoDiagonal(x, y, i, j - 1),
                     DtwCostNoDiagonal(x, y, i - 1, j))

\* The cumulative cost without the step (i, j - 1) inside the matrix.
RECURSIVE DtwCostNoInsertion(_, _, _, _)
DtwCostNoInsertion(x, y, i, j) ==
    LET c == euclidean(x[i], y[j])
    IN IF i = 1 /\ j = 1 THEN c
       ELSE IF i = 1 THEN c + DtwCostNoInsertion(x, y, 1, j - 1)
       ELSE IF j = 1 THEN c + DtwCostNoInsertion(x, y, i - 1, 1)
       ELSE c + Min3(DtwCostNoInsertion(x, y, i - 1, j),
                     DtwCostNoInsertion(x, y, i - 1, j - 1),
                     DtwCostNoInsertion(x, y, i - 1, j - 1))

\* fastdtw without the diagonal step.
fastdtw_no_diagonal(x, y) == DtwCostNoDiagonal(x, y, Len(x), Len(y))

\* fastdtw in which a frame of x cannot match several frames of y.
fastdtw_no_insertion(x, y) == DtwCostNoInsertion(x, y, Len(x), Len(y))

fastdtw(x, y) == DtwCost(x, y, Len(x), Len(y))

(***************************************************************************)
(* calculate_dtw_similarity: the distance-to-score calibration             *)
(* (audio_processor.py 260-281).  distance is a rational >= 0.             *)
(***************************************************************************)
\* distance_to_score with the top band 10 points high instead of 15.
distance_to_score_top95(distance) ==
    IF Lt(distance, R(2500))
    THEN RAdd(R(85), RMul(RSub(R(1), RDiv(distance, R(2500))), R(10)))
    ELSE R(0)

\* distance_to_score with the 6000-12000 band mapped to 75-55 instead of 70-50.
distance_to_score_band_75(distance) ==
    IF Lt(distance, R(2500))
    THEN RAdd(R(85), RMul(RSub(R(1), RDiv(distance, R(2500))), R(15)))
    ELSE IF Lt(distance, R(6000))
    THEN RAdd(R(70), RMul(RSub(R(1), RDiv(RSub(distance, R(2500)), R(3500))), R(15)))
    ELSE IF Lt(distance, R(12000))
    THEN RAdd(R(55), RMul(RSub(R(1), RDiv(RSub(distance, R(6000)), R(6000))), R(20)))
    ELSE R(0)

distance_to_score(distance) ==
    LET one == R(1)
        similarity_score ==
            IF Lt(distance, R(2500))
            THEN RAdd(R(85), RMul(RSub(one, RDiv(distance, R(2500))), R(15)))
            ELSE IF Lt(distance, R(6000))
            THEN RAdd(R(70), RMul(RSub(one, RDiv(RSub(distance, R(2500)), R(3500))), R(15)))
            ELSE IF Lt(distance, R(12000))
            THEN RAdd(R(50), RMul(RSub(one, RDiv(RSub(distance, R(6000)), R(6000))), R(20)))
            ELSE IF Lt(distance, R(20000))
            THEN RAdd(R(30), RMul(RSub(one, RDiv(RSub(distance, R(12000)), R(8000))), R(20)))
            ELSE IF Lt(distance, R(30000))
            THEN RAdd(R(10), RMul(RSub(one, RDiv(RSub(distance, R(20000)), R(10000))), R(20)))
            ELSE RMax(R(0), RSub(R(10), RDiv(RSub(distance, R(30000)), R(5000))))
    IN RMax(R(0), RMin(R(100), similarity_score))

calculate_dtw_similarity(user_mfcc, reference_mfcc) ==
    distance_to_score(R(fastdtw(user_mfcc, reference_mfcc)))

(***************************************************************************)
(* compare_pronunciation: the three penalties (audio_processor.py          *)
(* 346-362).  u and r are the learner's and the reference feature sets.    *)
(***************************************************************************)
\* |user - ref| / ref * 100 if ref > 0 else 0
diff_percent(user, ref) ==
    IF Gt(ref, R(0)) THEN RMul(RDiv(RAbs(RSub(user, ref)), ref), R(100)) ELSE R(0)

pitch_diff_percent(u, r) == diff_percent(u.pitch_mean, r.pitch_mean)
rms_diff_percent(u, r) == diff_percent(u.rms_mean, r.rms_mean)
duration_diff_percent(u, r) == diff_percent(u.duration, r.duration)

pitch_penalty(u, r) == RMin(R(30), RDiv(pitch_diff_percent(u, r), R(2)))
\* rms_penalty with the pitch penalty's scale 2 instead of 3.
rms_penalty_scale_2(u, r) == RMin(R(20), RDiv(rms_diff_percent(u, r), R(2)))

rms_penalty(u, r) == RMin(R(20), RDiv(rms_diff_percent(u, r), R(3)))
\* duration_penalty with the pitch penalty's cap 30 instead of 20.
duration_penalty_cap_30(u, r) == RMin(R(30), RDiv(duration_diff_percent(u, r), R(2)))

duration_penalty(u, r) == RMin(R(20), RDiv(duration_diff_percent(u, r), R(2)))

total_penalty(u, r) ==
    RAdd(RAdd(pitch_penalty(u, r), rms_penalty(u, r)), duration_penalty(u, r))

\* final_score without the max(0, ...) of line 366.
final_score_no_floor(dtw_score, penalty) == RSub(dtw_score, penalty)

\* similarity_score = max(0, dtw_score - total_penalty)   (line 366)
final_score(dtw_score, penalty) == RMax(R(0), RSub(dtw_score, penalty))

(***************************************************************************)
(* generate_feedback (audio_processor.py 396-568).  The Japanese texts are *)
(* modelled by tokens:                                                     *)
(*   rating  "excellent" 418, "good" 422, "fair" 426,                      *)
(*           "needs_improvement" 430, "fail" 434                           *)
(*   overall message: "msg_excellent" 419, "msg_good" 423, "msg_fair" 427, *)
(*           "msg_needs_improvement" 431, "msg_fail" 435                   *)
(*   comments: "<aspect>_good" 461/494/527, the "slightly" (borderline)    *)
(*           wordings 464-466/497-499/530-532 and the "too" (poor)         *)
(*           wordings 469-471/502-504/535-537.                             *)
(***************************************************************************)
\* overall_rating with the top band starting at 80 instead of 85.
overall_rating_excellent_from_80(similarity_score) ==
    IF Ge(similarity_score, R(80)) THEN "excellent"
    ELSE IF Ge(similarity_score, R(70)) THEN "good"
    ELSE IF Ge(similarity_score, R(50)) THEN "fair"
    ELSE IF Ge(similarity_score, R(30)) THEN "needs_improvement"
    ELSE "fail"

overall_rating(similarity_score) ==
    IF Ge(similarity_score, R(85)) THEN "excellent"
    ELSE IF Ge(similarity_score, R(70)) THEN "good"
    ELSE IF Ge(similarity_score, R(50)) THEN "fair"
    ELSE IF Ge(similarity_score, R(30)) THEN "needs_improvement"
    ELSE "fail"

overall_message(similarity_score) ==
    IF Ge(similarity_score, R(85)) THEN "msg_excellent"
    ELSE IF Ge(similarity_score, R(70)) THEN "msg_good"
    ELSE IF Ge(similarity_score, R(50)) THEN "msg_fair"
    ELSE IF Ge(similarity_score, R(30)) THEN "msg_needs_improvement"
    ELSE "msg_fail"

is_very_low_score(similarity_score) == Lt(similarity_score, R(30))
\* is_low_score with 30 < similarity_score instead of 30 <= similarity_score.
is_low_score_exclusive(similarity_score) ==
    Lt(R(30), similarity_score) /\ Lt(similarity_score, R(50))

is_low_score(similarity_score) ==
    Le(R(30), similarity_score) /\ Lt(similarity_score, R(50))

\* aspect_score without the cap of 29 for a very low overall score.
aspect_score_no_29_cap(similarity_score, diff_pct) ==
    LET raw == RMax(R(0), RMin(R(100), RSub(R(100), diff_pct)))
    IN IF Lt(similarity_score, R(50)) THEN RMin(raw, R(49)) ELSE raw

\* max(0, min(100, 100 - diff_percent)), then the cap of the low bands
aspect_score(similarity_score, diff_pct) ==
    LET raw == RMax(R(0), RMin(R(100), RSub(R(100), diff_pct)))
    IN IF is_very_low_score(similarity_score) THEN RMin(raw, R(29))
       ELSE IF is_low_score(similarity_score) THEN RMin(raw, R(49))
       ELSE raw

pitch_score(similarity_score, u, r) ==
    aspect_score(similarity_score, pitch_diff_percent(u, r))
timing_score(similarity_score, u, r) ==
    aspect_score(similarity_score, duration_diff_percent(u, r))
volume_score(similarity_score, u, r) ==
    aspect_score(similarity_score, rms_diff_percent(u, r))

\* pitch_comment choosing the tier by the uncapped pitch score.
pitch_comment_uncapped(score, u, r) ==
    LET raw == RMax(R(0), RMin(R(100), RSub(R(100), pitch_diff_percent(u, r))))
    IN IF Ge(raw, R(70)) THEN "pitch_good"
       ELSE IF Ge(raw, R(50))
       THEN IF Gt(u.pitch_mean, r.pitch_mean)
            THEN "pitch_slightly_high" ELSE "pitch_slightly_low"
       ELSE IF Gt(u.pitch_mean, r.pitch_mean)
            THEN "pitch_too_high" ELSE "pitch_too_low"

pitch_comment(score, u, r) ==
    IF Ge(score, R(70)) THEN "pitch_good"
    ELSE IF Ge(score, R(50))
    THEN IF Gt(u.pitch_mean, r.pitch_mean)
         THEN "pitch_slightly_high" ELSE "pitch_slightly_low"
    ELSE IF Gt(u.pitch_mean, r.pitch_mean)
         THEN "pitch_too_high" ELSE "pitch_too_low"

timing_comment(score, u, r) ==
    IF Ge(score, R(70)) THEN "timing_good"
    ELSE IF Ge(score, R(50))
    THEN IF Gt(u.duration, r.duration)
         THEN "timing_slightly_slow" ELSE "timing_slightly_fast"
    ELSE IF Gt(u.duration, r.duration)
         THEN "timing_too_slow" ELSE "timing_too_fast"

volume_comment(score, u, r) ==
    IF Ge(score, R(70)) THEN "volume_good"
    ELSE IF Ge(score, R(50))
    THEN IF Gt(u.rms_mean, r.rms_mean)
         THEN "volume_slightly_loud" ELSE "volume_slightly_soft"
    ELSE IF Gt(u.rms_mean, r.rms_mean)
         THEN "volume_too_loud" ELSE "volume_too_soft"

\* additional_tips giving the intermediate level the beginner's tip.
additional_tips_no_intermediate(user_level) ==
    IF user_level \in {"beginner", "intermediate"} THEN "tips_beginner"
    ELSE "tips_advanced"

additional_tips(user_level) ==
    IF user_level = "beginner" THEN "tips_beginner"
    ELSE IF user_level = "intermediate" THEN "tips_intermediate"
    ELSE "tips_advanced"

generate_feedback(similarity_score, u, r, user_level) ==
    LET pitch == pitch_score(similarity_score, u, r)
        timing == timing_score(similarity_score, u, r)
        volume == volume_score(similarity_score, u, r)
        three ==
            << [aspect |-> "pitch",
                comment |-> pitch_comment(pitch, u, r),
                score |-> Round(pitch, 1)],
               [aspect |-> "timing",
                comment |-> timing_comment(timing, u, r),
                score |-> Round(timing, 1)],
               [aspect |-> "volume",
                comment |-> volume_comment(volume, u, r),
                score |-> Round(volume, 1)] >>
        details ==
            IF is_very_low_score(similarity_score)
            THEN Append(three, [aspect |-> "overall",
                                comment |-> "overall_differs",
                                score |-> Round(similarity_score, 1)])
            ELSE three
    IN [overall |-> overall_message(similarity_score),
        rating |-> overall_rating(similarity_score),
        details |-> details,
        tips |-> additional_tips(user_level)]

(***************************************************************************)
(* compare_pronunciation (audio_processor.py 283-394), from the two        *)
(* extracted feature sets on.  pitch_std, which the code only copies into  *)
(* the result, is left out.                                                *)
(***************************************************************************)
\* is_silent with the threshold 0.0001 instead of 0.001.
is_silent_0001(u) == Lt(u.rms_mean, Frac(1, 10000))

is_silent(u) == Lt(u.rms_mean, Frac(1, 1000))

reported_features(f) == [duration |-> f.duration, pitch_mean |-> f.pitch_mean]

similarity_score_of(u, r) ==
    final_score(calculate_dtw_similarity(u.mfcc, r.mfcc), total_penalty(u, r))

compare_pronunciation(u, r, user_level) ==
    IF is_silent(u)
    THEN [similarity_score |-> R(0),
          user_features |-> reported_features(u),
          reference_features |-> reported_features(r),
          feedback |-> generate_feedback(R(0), u, r, user_level),
          level |-> user_level]
    ELSE LET similarity_score == similarity_score_of(u, r)
         IN [similarity_score |-> Round(similarity_score, 2),
             user_features |-> reported_features(u),
             reference_features |-> reported_features(r),
             feedback |-> generate_feedback(similarity_score, u, r, user_level),
             level |-> user_level]

(***************************************************************************)
(* Inputs.  Feature sets as extract_features can return them: pitch_mean   *)
(* is 0 for a recording without voiced frames (line 177), rms_mean is 0    *)
(* for digital silence, duration is positive (feature extraction fails on  *)
(* an empty buffer, so a zero duration never reaches the scoring code).    *)
(***************************************************************************)
MaxFrames == 2

FrameValues == {0, 6750}

MfccSet == UNION {[1..n -> FrameValues] : n \in 1..MaxFrames}

UserPitchValues == {R(0), R(150), R(300)}
ReferencePitchValues == {R(0), R(150), R(210), R(300)}
UserRmsValues == {Frac(1, 10000), Frac(1, 1000), Frac(1, 20), Frac(7, 100)}
ReferenceRmsValues == {R(0), Frac(1, 10000), Frac(1, 20)}
UserDurationValues == {R(1), Frac(3, 2), R(3)}
ReferenceDurationValues == {Frac(3, 2), R(3)}

UserFeatureSets ==
    [pitch_mean : UserPitchValues, rms_mean : UserRmsValues,
     duration : UserDurationValues, mfcc : MfccSet]
ReferenceFeatureSets ==
    [pitch_mean : ReferencePitchValues, rms_mean : ReferenceRmsValues,
     duration : ReferenceDurationValues, mfcc : MfccSet]

Levels == {"beginner", "intermediate", "advanced"}

NoRequest == [kind |-> "none"]
NoResponse == [kind |-> "none"]

\* AudioProcessor.__init__: the instance's only field (audio_processor.py 17-22).
DefaultSampleRate == 22050

AudioProcessor(sample_rate) == [sample_rate |-> sample_rate]

\* ConversationEngine.__init__ (conversation_engine.py 14-29): the session
\* store starts empty.  main.py 46-48: the one instance every request uses.
ConversationEngine == [sessions |-> <<>>]

\* main.py 89-90: REFERENCE_DIR / f"{safe_word}_ref{ext}"; a name is the
\* sequence of its characters.
ReferencePath(safe_word, ext) ==
    [dir |-> "reference_audio", stem |-> safe_word, suffix |-> "_ref", ext |-> ext]

\* The reference_audio directory (main.py 40-41) holding the recording of
\* "salamat".
ReferenceDir == {ReferencePath(<<"s", "a", "l", "a", "m", "a", "t">>, ".mp3")}

\* main.py 43-44: the one AudioProcessor instance every request uses.
Init ==
    /\ request = NoRequest
    /\ response = NoResponse
    /\ audio_processor = AudioProcessor(DefaultSampleRate)
    /\ conversation_engine = ConversationEngine
    /\ now = 0
    /\ reference_dir = ReferenceDir

\* A caller hands the engine a learner recording, a reference and a level.
Submit ==
    /\ request = NoRequest
    /\ \E u \in UserFeatureSets, r \in ReferenceFeatureSets, lvl \in Levels :
          request' = [kind |-> "compare", user |-> u, reference |-> r, level |-> lvl]
    /\ response' = NoResponse
    /\ UNCHANGED <<audio_processor, conversation_engine, now, reference_dir>>

\* The engine runs compare_pronunciation on the pending request.
ComparePronunciation ==
    /\ request # NoRequest
    /\ response = NoResponse
    /\ response' = compare_pronunciation(request.user, request.reference, request.level)
    /\ UNCHANGED request
    /\ UNCHANGED <<audio_processor, conversation_engine, now, reference_dir>>

\* The caller takes the result; the engine keeps nothing of the request.
Return ==
    /\ response # NoResponse
    /\ request' = NoRequest
    /\ response' = NoResponse
    /\ UNCHANGED <<audio_processor, conversation_engine, now, reference_dir>>

Next == Submit \/ ComparePronunciation \/ Return

Spec == Init /\ [][Next]_vars

(***************************************************************************)
(* Properties.                                                             *)
(***************************************************************************)
Done == response # NoResponse
U == request.user
Ref == request.reference

Clamp0to100(x) == RMax(R(0), RMin(R(100), x))
PenaltySum(u, r) ==
    RAdd(pitch_penalty(u, r), RAdd(rms_penalty(u, r), duration_penalty(u, r)))
\* clamp(base_score - (pitch_penalty + volume_penalty + duration_penalty), 0, 100)
ClampedScore(u, r) ==
    Clamp0to100(RSub(calculate_dtw_similarity(u.mfcc, r.mfcc), PenaltySum(u, r)))
InRange0to100(x) == Ge(x, R(0)) /\ Le(x, R(100))
SilenceThreshold == Frac(1, 1000)

\* C1 as stated: the returned similarity_score equals
\* clamp(base_score - sum of penalties, 0, 100) for every pair of feature sets.
C1_ScoreIsClampedDifference ==
    Done => response.similarity_score = ClampedScore(U, Ref)

\* C1 amended: the returned similarity_score is 0 when the learner's mean RMS is
\* below 0.001, and otherwise clamp(base_score - sum of penalties, 0, 100)
\* rounded to two decimals; in both cases it lies in [0, 100].
C1_ReturnedScore ==
    Done =>
        /\ InRange0to100(response.similarity_score)
        /\ IF Lt(U.rms_mean, SilenceThreshold)
           THEN response.similarity_score = R(0)
           ELSE response.similarity_score = Round(ClampedScore(U, Ref), 2)

\* C1 witness: an audible learner, a positive penalty, a score strictly inside
\* (0, 100) that the rounding to two decimals has changed.
C1_Witness ==
    /\ Done
    /\ Ge(U.rms_mean, SilenceThreshold)
    /\ Gt(PenaltySum(U, Ref), R(0))
    /\ Gt(response.similarity_score, R(0))
    /\ Lt(response.similarity_score, R(100))
    /\ response.similarity_score # ClampedScore(U, Ref)

\* C2: whenever the learner's mean RMS is below 0.001 the returned
\* similarity_score is 0 and the rating is the lowest band, whatever the
\* reference, the other features and the distance are.
C2_SilenceShortCircuit ==
    Done /\ Lt(U.rms_mean, SilenceThreshold) =>
        /\ response.similarity_score = R(0)
        /\ response.feedback.rating = "fail"

\* C2 witness: a silent learner whose distance and deviations would otherwise
\* have scored 100, answered with 0 and the lowest rating.
C2_Witness ==
    /\ Done
    /\ Lt(U.rms_mean, SilenceThreshold)
    /\ ClampedScore(U, Ref) = R(100)
    /\ response.similarity_score = R(0)
    /\ response.feedback.rating = "fail"

\* C3 as stated: comparing any recording with an identical copy of itself
\* yields a final score of 100.
C3_IdenticalScores100 ==
    Done /\ U = Ref => response.similarity_score = R(100)

\* C3 amended: comparing a recording whose mean RMS is at least 0.001 with an
\* identical copy of itself yields a final score of 100 (a quieter recording
\* is scored 0 by the silence short-circuit).
C3_AudibleIdenticalScores100 ==
    Done /\ U = Ref =>
        IF Ge(U.rms_mean, SilenceThreshold)
        THEN response.similarity_score = R(100)
        ELSE response.similarity_score = R(0)

\* C3 witness: an audible recording with a non-zero cepstral frame compared with
\* its copy.
C3_Witness ==
    /\ Done
    /\ U = Ref
    /\ Ge(U.rms_mean, SilenceThreshold)
    /\ \E i \in DOMAIN U.mfcc : U.mfcc[i] # 0
    /\ response.similarity_score = R(100)

\* The score generate_feedback is given: 0 for a silent learner, otherwise the
\* clamped difference before it is rounded for the result.
OverallScore(u, r) ==
    IF Lt(u.rms_mean, SilenceThreshold) THEN R(0) ELSE ClampedScore(u, r)

Details == response.feedback.details
AspectEntries == {i \in DOMAIN Details : Details[i].aspect \in {"pitch", "timing", "volume"}}

\* C4 as stated: if the final score is below 30, every entry of the returned
\* details list has a score of at most 29.
C4_EveryEntryAtMost29 ==
    Done /\ Lt(response.similarity_score, R(30)) =>
        \A i \in DOMAIN Details : Le(Details[i].score, R(29))

\* C4 amended: if the final score is below 30, the pitch, timing and volume
\* entries of the details list each have a score of at most 29; the list then
\* has a fourth entry, the overall evaluation, whose score is the final score
\* (before its rounding to two decimals) rounded to one decimal, so at most 30.
C4_AspectEntriesAtMost29 ==
    Done /\ Lt(response.similarity_score, R(30)) =>
        /\ Len(Details) = 4
        /\ AspectEntries = {1, 2, 3}
        /\ \A i \in AspectEntries : Le(Details[i].score, R(29))
        /\ Details[4].aspect = "overall"
        /\ Details[4].score = Round(OverallScore(U, Ref), 1)
        /\ Le(Details[4].score, R(30))

\* C4 witness: a final score below 30 with the learner's pitch equal to the
\* reference pitch (capped from 100 to 29) and an overall entry above 29.
C4_Witness ==
    /\ Done
    /\ Lt(response.similarity_score, R(30))
    /\ U.pitch_mean = Ref.pitch_mean
    /\ Details[1].score = R(29)
    /\ Gt(Details[4].score, R(29))

\* Distances at, next to and between the calibration breakpoints, and where
\* the score reaches 0, in ascending order.
DistanceSamples ==
    << 0, 1, 1250, 2499, 2500, 2507, 4250, 5993, 6000, 6001, 9000, 11999, 12000,
       12001, 16000, 19999, 20000, 20001, 25000, 29999, 30000, 30010, 55000,
       79990, 80000, 80010, 100000 >>

SamplesAscending ==
    \A i \in 1..(Len(DistanceSamples) - 1) : DistanceSamples[i] < DistanceSamples[i + 1]

\* The base score at each sample distance.
BaseScores == [i \in DOMAIN DistanceSamples |-> distance_to_score(R(DistanceSamples[i]))]

\* base_score(d1) >= base_score(d2) for all sample distances d1 <= d2.
BaseScoreMonotone ==
    \A i, j \in DOMAIN DistanceSamples :
        DistanceSamples[i] <= DistanceSamples[j] => Ge(BaseScores[i], BaseScores[j])

\* final_score(d1) >= final_score(d2) for consecutive sample distances d1 < d2
\* under the total penalty p; >= being transitive, this is the same as for
\* all sample distances d1 <= d2.
FinalScoreMonotone(p) ==
    \A i \in 1..(Len(DistanceSamples) - 1) :
        Ge(final_score(BaseScores[i], p), final_score(BaseScores[i + 1], p))

\* C5: with the feature deviations held fixed, for all distances d1 <= d2 the
\* base score and the final score at d1 are at least those at d2.
C5_MonotoneInDistance ==
    Done => LET penalty == total_penalty(U, Ref)
            IN /\ SamplesAscending
               /\ BaseScoreMonotone
               /\ FinalScoreMonotone(penalty)

\* C5 witness: a compared pair with a positive penalty for which the final
\* score falls strictly across the 6000 breakpoint and is flat at 0 from 30000.
C5_Witness ==
    /\ Done
    /\ Gt(total_penalty(U, Ref), R(0))
    /\ Gt(final_score(distance_to_score(R(5993)), total_penalty(U, Ref)),
          final_score(distance_to_score(R(6000)), total_penalty(U, Ref)))
    /\ Gt(final_score(distance_to_score(R(6000)), total_penalty(U, Ref)),
          final_score(distance_to_score(R(6001)), total_penalty(U, Ref)))
    /\ final_score(distance_to_score(R(30000)), total_penalty(U, Ref)) = R(0)
    /\ final_score(distance_to_score(R(80000)), total_penalty(U, Ref)) = R(0)

\* The penalty rule of one aspect: percent deviation |user - ref| / ref * 100
\* (0 for a reference of 0), penalty min(percent / k, cap), within [0, cap].
PenaltyRule(user, ref, pct, penalty, k, cap) ==
    /\ IF ref = R(0)
       THEN pct = R(0) /\ penalty = R(0)
       ELSE RMul(pct, ref) = RMul(RAbs(RSub(user, ref)), R(100))
    /\ Le(RMul(penalty, R(k)), pct)
    /\ penalty = R(cap) \/ RMul(penalty, R(k)) = pct
    /\ Ge(penalty, R(0))
    /\ Le(penalty, R(cap))

TwiceAsLong(u, r) == u.duration = RMul(R(2), r.duration)
BaseScore(u, r) == calculate_dtw_similarity(u.mfcc, r.mfcc)

\* C7 as stated: when the learner's duration is 100% longer than the reference
\* and pitch and RMS equal the reference, the duration penalty is 20, the other
\* two penalties are 0 and the final score is clamp(base_score - 20, 0, 100).
C7_DoubleDuration ==
    Done /\ TwiceAsLong(U, Ref)
         /\ U.pitch_mean = Ref.pitch_mean /\ U.rms_mean = Ref.rms_mean =>
        /\ duration_penalty(U, Ref) = R(20)
        /\ pitch_penalty(U, Ref) = R(0)
        /\ rms_penalty(U, Ref) = R(0)
        /\ response.similarity_score = Clamp0to100(RSub(BaseScore(U, Ref), R(20)))

\* C7 amended: when moreover the learner's mean RMS is at least 0.001, the
\* duration penalty is 20, the other two penalties are 0 and the final score is
\* clamp(base_score - 20, 0, 100), returned rounded to two decimals.
C7_AudibleDoubleDuration ==
    Done /\ TwiceAsLong(U, Ref)
         /\ U.pitch_mean = Ref.pitch_mean /\ U.rms_mean = Ref.rms_mean
         /\ Ge(U.rms_mean, SilenceThreshold) =>
        /\ duration_penalty(U, Ref) = R(20)
        /\ pitch_penalty(U, Ref) = R(0)
        /\ rms_penalty(U, Ref) = R(0)
        /\ similarity_score_of(U, Ref) = Clamp0to100(RSub(BaseScore(U, Ref), R(20)))
        /\ response.similarity_score =
               Round(Clamp0to100(RSub(BaseScore(U, Ref), R(20))), 2)

\* C7 witness: the scenario of the specification (3.0 s against 1.5 s, pitch
\* 150 Hz and RMS 0.05 on both sides) at a base score below 100.
C7_Witness ==
    /\ Done
    /\ U.duration = R(3) /\ Ref.duration = Frac(3, 2)
    /\ U.pitch_mean = R(150) /\ Ref.pitch_mean = R(150)
    /\ U.rms_mean = Frac(1, 20) /\ Ref.rms_mean = Frac(1, 20)
    /\ Lt(BaseScore(U, Ref), R(100))
    /\ response.similarity_score = RSub(BaseScore(U, Ref), R(20))

\* |user - ref| / ref * 100, and 0 for a reference of 0.
PercentDeviation(user, ref) ==
    IF ref = R(0) THEN R(0) ELSE RDiv(RMul(RAbs(RSub(user, ref)), R(100)), ref)

\* 100 - deviation clamped to [0, 100], capped at 29 for an overall score below
\* 30 and at 49 for an overall score in [30, 50).
ExpectedAspectScore(deviation, overall) ==
    LET raw == Clamp0to100(RSub(R(100), deviation))
    IN IF Lt(overall, R(30)) THEN RMin(raw, R(29))
       ELSE IF Lt(overall, R(50)) THEN RMin(raw, R(49))
       ELSE raw

\* C8: each of the pitch, timing and volume scores is 100 - percent deviation
\* clamped to [0, 100], capped at 29 when the overall score is below 30 and at
\* 49 when it is in [30, 50), uncapped from 50 on; the details list reports it
\* rounded to one decimal.
C8_AspectScores ==
    Done =>
        LET overall == OverallScore(U, Ref)
            pitch == ExpectedAspectScore(
                         PercentDeviation(U.pitch_mean, Ref.pitch_mean), overall)
            timing == ExpectedAspectScore(
                          PercentDeviation(U.duration, Ref.duration), overall)
            volume == ExpectedAspectScore(
                          PercentDeviation(U.rms_mean, Ref.rms_mean), overall)
        IN /\ pitch_score(overall, U, Ref) = pitch
           /\ timing_score(overall, U, Ref) = timing
           /\ volume_score(overall, U, Ref) = volume
           /\ Details[1].aspect = "pitch" /\ Details[1].score = Round(pitch, 1)
           /\ Details[2].aspect = "timing" /\ Details[2].score = Round(timing, 1)
           /\ Details[3].aspect = "volume" /\ Details[3].score = Round(volume, 1)

\* C8 witness: an overall score in [30, 50), a pitch equal to the reference
\* capped from 100 to 49, and another aspect below the cap and above 0.
C8_Witness ==
    /\ Done
    /\ Ge(OverallScore(U, Ref), R(30)) /\ Lt(OverallScore(U, Ref), R(50))
    /\ U.pitch_mean = Ref.pitch_mean
    /\ Details[1].score = R(49)
    /\ \E i \in {2, 3} : Gt(Details[i].score, R(0)) /\ Lt(Details[i].score, R(49))

GoodComments == {"pitch_good", "timing_good", "volume_good"}
PoorComments == {"pitch_too_high", "pitch_too_low", "timing_too_slow",
                 "timing_too_fast", "volume_too_loud", "volume_too_soft"}

\* C9: whenever the overall score is below 50 none of the pitch, timing and
\* volume comments is the good-tier comment, and whenever it is below 30 all
\* three are poor-tier comments, also for an aspect equal to the reference.
C9_NoGoodCommentOnPoorScore ==
    Done =>
        LET overall == OverallScore(U, Ref)
        IN /\ AspectEntries = {1, 2, 3}
           /\ Lt(response.similarity_score, R(50)) \/ Lt(overall, R(50)) =>
                  \A i \in AspectEntries : Details[i].comment \notin GoodComments
           /\ Lt(response.similarity_score, R(30)) \/ Lt(overall, R(30)) =>
                  \A i \in AspectEntries : Details[i].comment \in PoorComments

\* C9 witness: an audible learner scored below 30 whose pitch equals the
\* reference pitch and whose pitch comment is a poor-tier comment.
C9_Witness ==
    /\ Done
    /\ Ge(U.rms_mean, SilenceThreshold)
    /\ Lt(response.similarity_score, R(30))
    /\ U.pitch_mean = Ref.pitch_mean
    /\ Details[1].comment \in PoorComments

\* The comment rule of one aspect: the tier by the capped score, and below the
\* good tier the first wording exactly when user > ref, the second exactly when
\* user < ref.
CommentRule(score, comment, user, ref, good, slightlyUp, slightlyDown, tooUp, tooDown) ==
    /\ comment = good <=> Ge(score, R(70))
    /\ comment \in {slightlyUp, slightlyDown} <=> Ge(score, R(50)) /\ Lt(score, R(70))
    /\ comment \in {tooUp, tooDown} <=> Lt(score, R(50))
    /\ Lt(score, R(70)) =>
           /\ comment \in {slightlyUp, tooUp} <=> Gt(user, ref)
           /\ comment \in {slightlyDown, tooDown} <=> Lt(user, ref)

\* C10: for each aspect the comment tier is chosen by the capped aspect score
\* (good from 70, borderline from 50, poor below) and in the borderline and poor
\* tiers the high/slow/loud wording is used exactly when user > reference and
\* the low/fast/soft wording exactly when user < reference.
C10_CommentTierAndDirection ==
    Done =>
        LET overall == OverallScore(U, Ref)
            pitch == pitch_score(overall, U, Ref)
            timing == timing_score(overall, U, Ref)
            volume == volume_score(overall, U, Ref)
        IN /\ CommentRule(pitch, Details[1].comment,
                          U.pitch_mean, Ref.pitch_mean, "pitch_good",
                          "pitch_slightly_high", "pitch_slightly_low",
                          "pitch_too_high", "pitch_too_low")
           /\ CommentRule(timing, Details[2].comment,
                          U.duration, Ref.duration, "timing_good",
                          "timing_slightly_slow", "timing_slightly_fast",
                          "timing_too_slow", "timing_too_fast")
           /\ CommentRule(volume, Details[3].comment,
                          U.rms_mean, Ref.rms_mean, "volume_good",
                          "volume_slightly_loud", "volume_slightly_soft",
                          "volume_too_loud", "volume_too_soft")

(***************************************************************************)
(* generate_feedback called on its own (it is a public method of           *)
(* AudioProcessor and a pure function of its four arguments): the score    *)
(* is drawn from values at, next to and between the rating thresholds.     *)
(***************************************************************************)
FeedbackScores ==
    {R(0), Frac(2999, 100), R(30), Frac(4999, 100), R(50), Frac(6999, 100),
     R(70), R(80), Frac(8499, 100), R(85), R(100)}

FeedbackUserFeatures ==
    [pitch_mean : UserPitchValues, rms_mean : {Frac(1, 20), Frac(7, 100)},
     duration : UserDurationValues, mfcc : {<<0>>}]
FeedbackReferenceFeatures ==
    [pitch_mean : {R(150)}, rms_mean : {Frac(1, 20)},
     duration : {Frac(3, 2)}, mfcc : {<<0>>}]

\* A caller hands generate_feedback a score, two feature sets and a level.
SubmitFeedback ==
    /\ request = NoRequest
    /\ \E s \in FeedbackScores, u \in FeedbackUserFeatures,
          r \in FeedbackReferenceFeatures, lvl \in Levels :
          request' = [kind |-> "feedback", score |-> s, user |-> u,
                      reference |-> r, level |-> lvl]
    /\ response' = NoResponse
    /\ UNCHANGED <<audio_processor, conversation_engine, now, reference_dir>>

GenerateFeedback ==
    /\ request # NoRequest
    /\ response = NoResponse
    /\ response' = generate_feedback(request.score, request.user,
                                     request.reference, request.level)
    /\ UNCHANGED request
    /\ UNCHANGED <<audio_processor, conversation_engine, now, reference_dir>>

ReturnFeedback ==
    /\ response # NoResponse
    /\ request' = NoRequest
    /\ response' = NoResponse
    /\ UNCHANGED <<audio_processor, conversation_engine, now, reference_dir>>

NextFeedback == SubmitFeedback \/ GenerateFeedback \/ ReturnFeedback

SpecFeedback == Init /\ [][NextFeedback]_vars

FeedbackDone == request.kind = "feedback" /\ response # NoResponse

\* The ordered rating table and the message each rating carries.
RatingTable(score) ==
    CASE Ge(score, R(85)) -> "excellent"
      [] Lt(score, R(85)) /\ Ge(score, R(70)) -> "good"
      [] Lt(score, R(70)) /\ Ge(score, R(50)) -> "fair"
      [] Lt(score, R(50)) /\ Ge(score, R(30)) -> "needs_improvement"
      [] Lt(score, R(30)) -> "fail"
RatingMessage(rating) ==
    CASE rating = "excellent" -> "msg_excellent"
      [] rating = "good" -> "msg_good"
      [] rating = "fair" -> "msg_fair"
      [] rating = "needs_improvement" -> "msg_needs_improvement"
      [] rating = "fail" -> "msg_fail"
RatingRank(rating) ==
    CASE rating = "fail" -> 0
      [] rating = "needs_improvement" -> 1
      [] rating = "fair" -> 2
      [] rating = "good" -> 3
      [] rating = "excellent" -> 4

\* C11: the rating is the entry of the ordered table (>= 85 excellent, >= 70
\* good, >= 50 fair, >= 30 needs-improvement, otherwise fail) for the final
\* score, the overall message is the one fixed message of that rating, a higher
\* score never gets a lower rating, and every level gets the same rating.
C11_RatingTable ==
    FeedbackDone =>
        /\ response.rating = RatingTable(request.score)
        /\ response.overall = RatingMessage(response.rating)
        /\ \A t \in FeedbackScores :
               Le(request.score, t) =>
                   RatingRank(response.rating) <= RatingRank(overall_rating(t))
        /\ \A lvl \in Levels :
               generate_feedback(request.score, request.user,
                                 request.reference, lvl).rating = response.rating

\* C11 witness: a score exactly on the top threshold, at the advanced level,
\* rated excellent with the message of that rating.
C11_Witness ==
    /\ FeedbackDone
    /\ request.score = R(85)
    /\ request.level = "advanced"
    /\ response.rating = "excellent"
    /\ response.overall = "msg_excellent"

\* The tip of each proficiency level.
TipOfLevel(level) ==
    CASE level = "beginner" -> "tips_beginner"
      [] level = "intermediate" -> "tips_intermediate"
      [] level = "advanced" -> "tips_advanced"

\* C12: the closing tip is the fixed string of the proficiency level, whatever
\* the score and the features are, and the three levels have three different
\* strings.
C12_TipByLevel ==
    FeedbackDone =>
        /\ response.tips = TipOfLevel(request.level)
        /\ \A l1, l2 \in Levels :
               l1 # l2 => generate_feedback(request.score, request.user,
                                            request.reference, l1).tips
                          # generate_feedback(request.score, request.user,
                                              request.reference, l2).tips

\* C12 witness: the intermediate level at the lowest score gets the
\* intermediate tip.
C12_Witness ==
    /\ FeedbackDone
    /\ request.level = "intermediate"
    /\ request.score = R(0)
    /\ response.tips = "tips_intermediate"

(***************************************************************************)
(* calculate_dtw_similarity called on its own with two cepstral sequences  *)
(* (a pure function of the two).  The result keeps the distance the method *)
(* computes and prints (line 248) next to the score it returns.            *)
(***************************************************************************)
MaxDtwFrames == 3

DtwFrameValues == {0, 1000, 2500}

DtwMfccSet == UNION {[1..n -> DtwFrameValues] : n \in 1..MaxDtwFrames}

SubmitDtw ==
    /\ request = NoRequest
    /\ \E x \in DtwMfccSet, y \in DtwMfccSet :
          request' = [kind |-> "dtw", user_mfcc |-> x, reference_mfcc |-> y]
    /\ response' = NoResponse
    /\ UNCHANGED <<audio_processor, conversation_engine, now, reference_dir>>

CalculateDtwSimilarity ==
    /\ request # NoRequest
    /\ response = NoResponse
    /\ response' =
           [distance |-> fastdtw(request.user_mfcc, request.reference_mfcc),
            similarity_score |->
                calculate_dtw_similarity(request.user_mfcc, request.reference_mfcc)]
    /\ UNCHANGED request
    /\ UNCHANGED <<audio_processor, conversation_engine, now, reference_dir>>

ReturnDtw ==
    /\ response # NoResponse
    /\ request' = NoRequest
    /\ response' = NoResponse
    /\ UNCHANGED <<audio_processor, conversation_engine, now, reference_dir>>

NextDtw == SubmitDtw \/ CalculateDtwSimilarity \/ ReturnDtw

SpecDtw == Init /\ [][NextDtw]_vars

DtwDone == request.kind = "dtw" /\ response # NoResponse

\* C13: the distance of a non-empty cepstral sequence to itself is 0 and its
\* base score is 100.
C13_SelfDistanceZero ==
    DtwDone /\ request.user_mfcc = request.reference_mfcc =>
        /\ response.distance = 0
        /\ response.similarity_score = R(100)

\* C13 witness: a sequence of several frames that are not all equal, aligned
\* with itself.
C13_Witness ==
    /\ DtwDone
    /\ request.user_mfcc = request.reference_mfcc
    /\ Len(request.user_mfcc) >= 2
    /\ \E i, j \in DOMAIN request.user_mfcc :
           request.user_mfcc[i] # request.user_mfcc[j]
    /\ response.distance = 0
    /\ response.similarity_score = R(100)

\* The monotonic paths from (1, 1) to (i, j): each step advances the first
\* index, the second, or both, by one.
RECURSIVE WarpingPaths(_, _)
WarpingPaths(i, j) ==
    IF i = 1 /\ j = 1 THEN {<< <<1, 1>> >>}
    ELSE LET prev == (IF i > 1 THEN WarpingPaths(i - 1, j) ELSE {})
                     \cup (IF j > 1 THEN WarpingPaths(i, j - 1) ELSE {})
                     \cup (IF i > 1 /\ j > 1 THEN WarpingPaths(i - 1, j - 1) ELSE {})
         IN {Append(p, <<i, j>>) : p \in prev}

\* The cumulative pointwise cost of the first k cells of path p.
RECURSIVE PathCost(_, _, _, _)
PathCost(x, y, p, k) ==
    IF k = 0 THEN 0
    ELSE euclidean(x[p[k][1]], y[p[k][2]]) + PathCost(x, y, p, k - 1)

MinPathCost(x, y) ==
    LET costs == {PathCost(x, y, p, Len(p)) : p \in WarpingPaths(Len(x), Len(y))}
    IN CHOOSE c \in costs : \A d \in costs : c <= d

\* C14: the distance of A to B equals the distance of B to A, and it is the
\* minimal cumulative pointwise cost over the monotonic paths anchored
\* first-to-first and last-to-last.
C14_DistanceSymmetric ==
    DtwDone =>
        /\ response.distance = fastdtw(request.reference_mfcc, request.user_mfcc)
        /\ response.distance = MinPathCost(request.user_mfcc, request.reference_mfcc)

\* C14 witness: two different sequences of different lengths at a positive
\* distance.
C14_Witness ==
    /\ DtwDone
    /\ Len(request.user_mfcc) = 3
    /\ Len(request.reference_mfcc) = 2
    /\ response.distance > 0
    /\ response.distance = fastdtw(request.reference_mfcc, request.user_mfcc)

(***************************************************************************)
(* compare_pronunciation from the two files on (audio_processor.py         *)
(* 300-336): load_audio and extract_features for the learner's recording,  *)
(* then for the reference, then the scoring modelled above.  None of the   *)
(* calls is inside a try, so an exception of a stage leaves                *)
(* compare_pronunciation at once.                                          *)
(*                                                                         *)
(* A file is unreadable (missing, line 39, or refused by every decoder,    *)
(* line 151) or holds audio: its sample rate sr, its number of samples and *)
(* what the recording sounds like (pitch_mean, rms_mean, mfcc).            *)
(*                                                                         *)
(* extract_features validates nothing itself.  What the librosa calls of   *)
(* lines 163-190 do with a buffer of 0 samples depends on the installed    *)
(* librosa: it either raises while padding the first frame, or pads the    *)
(* frame with zeros and returns one silent frame.  librosa_rejects_empty   *)
(* says which of the two the installation does.                            *)
(***************************************************************************)
Raised(error) == [kind |-> "raised", error |-> error]
Returned(value) == [kind |-> "returned", value |-> value]

UnreadableFile == [kind |-> "unreadable"]

\* The file of a recording of f.duration seconds at sample rate sr.
AudioFile(f, sr) ==
    [kind |-> "audio", sr |-> sr, samples |-> (f.duration.n * sr) \div f.duration.d,
     pitch_mean |-> f.pitch_mean, rms_mean |-> f.rms_mean, mfcc |-> f.mfcc]

EmptyAudioFile(sr) ==
    [kind |-> "audio", sr |-> sr, samples |-> 0,
     pitch_mean |-> R(0), rms_mean |-> R(0), mfcc |-> <<0>>]

\* librosa.resample(audio_data, orig_sr, target_sr): the number of samples
resample(samples, orig_sr, target_sr) ==
    (samples \div orig_sr) * target_sr + ((samples % orig_sr) * target_sr) \div orig_sr

load_audio(self, file) ==
    IF file.kind = "unreadable" THEN Raised("load_audio")
    ELSE Returned([samples |-> IF file.sr # self.sample_rate
                               THEN resample(file.samples, file.sr, self.sample_rate)
                               ELSE file.samples,
                   pitch_mean |-> file.pitch_mean,
                   rms_mean |-> file.rms_mean,
                   mfcc |-> file.mfcc])

extract_features(self, audio_data, librosa_rejects_empty) ==
    IF audio_data.samples = 0 /\ librosa_rejects_empty THEN Raised("librosa")
    ELSE Returned([mfcc |-> audio_data.mfcc,
                   pitch_mean |-> audio_data.pitch_mean,
                   rms_mean |-> audio_data.rms_mean,
                   duration |-> Frac(audio_data.samples, self.sample_rate)])

\* compare_pronunciation run alone: the first stage that raises ends it.
compare_pronunciation_files(self, user_file, reference_file, user_level, librosa_rejects_empty) ==
    LET user_audio == load_audio(self, user_file)
        user_features == extract_features(self, user_audio.value, librosa_rejects_empty)
        reference_audio == load_audio(self, reference_file)
        reference_features ==
            extract_features(self, reference_audio.value, librosa_rejects_empty)
    IN IF user_audio.kind = "raised" THEN user_audio
       ELSE IF user_features.kind = "raised" THEN user_features
       ELSE IF reference_audio.kind = "raised" THEN reference_audio
       ELSE IF reference_features.kind = "raised" THEN reference_features
       ELSE Returned(compare_pronunciation(user_features.value,
                                           reference_features.value, user_level))

(***************************************************************************)
(* Concurrent comparisons on the one shared instance.  Each worker runs    *)
(* compare_pronunciation statement by statement on its own local           *)
(* variables (kept in request[w]); the only state the workers share is     *)
(* audio_processor, whose sample_rate load_audio and extract_features      *)
(* read.  The server itself starts comparisons from its event loop (see    *)
(* the server specification below); the workers here are the callers the   *)
(* concurrency claim speaks of.                                            *)
(***************************************************************************)
MaxWorkers == 2

Workers == 1..MaxWorkers

RecordingA ==
    [pitch_mean |-> R(150), rms_mean |-> Frac(1, 20), duration |-> R(3),
     mfcc |-> <<0, 6750>>]
RecordingB ==
    [pitch_mean |-> R(0), rms_mean |-> Frac(1, 10000), duration |-> Frac(3, 2),
     mfcc |-> <<0>>]
ReferenceRecording ==
    [pitch_mean |-> R(150), rms_mean |-> Frac(1, 20), duration |-> Frac(3, 2),
     mfcc |-> <<0>>]

EngineUserFiles ==
    {UnreadableFile, EmptyAudioFile(22050), AudioFile(RecordingA, 44100),
     AudioFile(RecordingB, 22050)}
EngineReferenceFiles ==
    {UnreadableFile, EmptyAudioFile(44100), AudioFile(ReferenceRecording, 22050)}

NoValue == [kind |-> "none"]

InitEngine ==
    /\ request = [w \in Workers |-> NoRequest]
    /\ response = [w \in Workers |-> NoResponse]
    /\ audio_processor = AudioProcessor(DefaultSampleRate)
    /\ conversation_engine = ConversationEngine
    /\ now = 0
    /\ reference_dir = ReferenceDir

\* Worker w is handed a call of compare_pronunciation.  All calls in flight
\* run on the same librosa installation.
Call(w) ==
    /\ request[w] = NoRequest
    /\ \E uf \in EngineUserFiles, rf \in EngineReferenceFiles, b \in BOOLEAN :
          /\ \A v \in Workers :
                 request[v] # NoRequest => request[v].librosa_rejects_empty = b
          /\ request' = [request EXCEPT ![w] =
                 [kind |-> "compare", user_file |-> uf, reference_file |-> rf,
                  level |-> "beginner", librosa_rejects_empty |-> b,
                  pc |-> "load_user", user_audio |-> NoValue,
                  user_features |-> NoValue, reference_audio |-> NoValue,
                  reference_features |-> NoValue]]
    /\ UNCHANGED <<response, audio_processor, conversation_engine, now, reference_dir>>

Running(w, pc) == request[w] # NoRequest /\ request[w].pc = pc

\* The end of one statement of worker w: an exception ends the call, a value
\* is kept in the local variable.
Assign(w, local, result, next_pc) ==
    IF result.kind = "raised"
    THEN /\ response' = [response EXCEPT ![w] = result]
         /\ request' = [request EXCEPT ![w].pc = "done"]
    ELSE /\ request' = [request EXCEPT ![w][local] = result.value,
                                       ![w].pc = next_pc]
         /\ UNCHANGED response

\* LoadUserAudio with load_audio keeping the file's sample rate in the instance
\* (self.sample_rate = sr).
LoadUserAudioKeepingRate(w) ==
    /\ Running(w, "load_user")
    /\ Assign(w, "user_audio", load_audio(audio_processor, request[w].user_file),
              "extract_user")
    /\ audio_processor' =
           IF request[w].user_file.kind = "audio"
           THEN [audio_processor EXCEPT !.sample_rate = request[w].user_file.sr]
           ELSE audio_processor
    /\ UNCHANGED <<conversation_engine, now, reference_dir>>

\* line 301
LoadUserAudio(w) ==
    /\ Running(w, "load_user")
    /\ Assign(w, "user_audio", load_audio(audio_processor, request[w].user_file),
              "extract_user")
    /\ UNCHANGED <<audio_processor, conversation_engine, now, reference_dir>>

\* line 302
ExtractUserFeatures(w) ==
    /\ Running(w, "extract_user")
    /\ Assign(w, "user_features",
              extract_features(audio_processor, request[w].user_audio,
                               request[w].librosa_rejects_empty),
              "load_reference")
    /\ UNCHANGED <<audio_processor, conversation_engine, now, reference_dir>>

\* LoadReferenceAudio answering a reference that cannot be loaded with a
\* default score of 0 instead of the exception.
LoadReferenceAudioOrDefault(w) ==
    /\ Running(w, "load_reference")
    /\ LET reference_audio == load_audio(audio_processor, request[w].reference_file)
       IN IF reference_audio.kind = "raised"
          THEN /\ response' = [response EXCEPT ![w] =
                      Returned([similarity_score |-> R(0), feedback |-> NoValue])]
               /\ request' = [request EXCEPT ![w].pc = "done"]
          ELSE Assign(w, "reference_audio", reference_audio, "extract_reference")
    /\ UNCHANGED <<audio_processor, conversation_engine, now, reference_dir>>

\* line 308 (silent learner) or 335
LoadReferenceAudio(w) ==
    /\ Running(w, "load_reference")
    /\ Assign(w, "reference_audio",
              load_audio(audio_processor, request[w].reference_file),
              "extract_reference")
    /\ UNCHANGED <<audio_processor, conversation_engine, now, reference_dir>>

\* line 309 (silent learner) or 336
ExtractReferenceFeatures(w) ==
    /\ Running(w, "extract_reference")
    /\ Assign(w, "reference_features",
              extract_features(audio_processor, request[w].reference_audio,
                               request[w].librosa_rejects_empty),
              "score")
    /\ UNCHANGED <<audio_processor, conversation_engine, now, reference_dir>>

\* lines 311-332 (silent learner) or 339-394: score, feedback and return
ScoreAndFeedback(w) ==
    /\ Running(w, "score")
    /\ response' = [response EXCEPT ![w] =
           Returned(compare_pronunciation(request[w].user_features,
                                          request[w].reference_features,
                                          request[w].level))]
    /\ request' = [request EXCEPT ![w].pc = "done"]
    /\ UNCHANGED <<audio_processor, conversation_engine, now, reference_dir>>

\* The caller of worker w takes the result or the exception.
TakeResult(w) ==
    /\ Running(w, "done")
    /\ request' = [request EXCEPT ![w] = NoRequest]
    /\ response' = [response EXCEPT ![w] = NoResponse]
    /\ UNCHANGED <<audio_processor, conversation_engine, now, reference_dir>>

NextEngine ==
    \E w \in Workers :
        \/ Call(w)
        \/ LoadUserAudio(w)
        \/ ExtractUserFeatures(w)
        \/ LoadReferenceAudio(w)
        \/ ExtractReferenceFeatures(w)
        \/ ScoreAndFeedback(w)
        \/ TakeResult(w)

SpecEngine == InitEngine /\ [][NextEngine]_vars

\* What the call of worker w returns or raises when it runs alone on a fresh
\* instance.
AloneResult(w) ==
    compare_pronunciation_files(AudioProcessor(DefaultSampleRate),
                                request[w].user_file, request[w].reference_file,
                                request[w].level, request[w].librosa_rejects_empty)

Finished(w) == Running(w, "done")

\* C15: in every interleaving of the workers' comparisons the shared instance
\* is never changed and each finished comparison has the result (score and
\* feedback, or exception) it has when run alone.
C15_NoInterference ==
    /\ audio_processor = AudioProcessor(DefaultSampleRate)
    /\ \A w \in Workers : Finished(w) => response[w] = AloneResult(w)

\* C15 witness: a comparison that resampled its recording has returned a score
\* while another worker, on another recording, is between two statements.
C15_Witness ==
    \E w, v \in Workers :
        /\ w # v
        /\ Finished(w)
        /\ response[w].kind = "returned"
        /\ request[w].user_file.sr # audio_processor.sample_rate
        /\ request[v] # NoRequest
        /\ request[v].pc \in {"extract_user", "load_reference", "extract_reference"}
        /\ request[v].user_file # request[w].user_file

\* A stage of the comparison fails on this file: it cannot be loaded, or it
\* has no samples and the librosa installation raises on an empty buffer.
StageFails(file, librosa_rejects_empty) ==
    \/ file.kind = "unreadable"
    \/ file.kind = "audio" /\ file.samples = 0 /\ librosa_rejects_empty

CallFails(w) ==
    \/ StageFails(request[w].user_file, request[w].librosa_rejects_empty)
    \/ StageFails(request[w].reference_file, request[w].librosa_rejects_empty)

\* C17: if loading or feature extraction fails for the learner's or for the
\* reference recording, compare_pronunciation raises and returns neither a
\* similarity_score nor feedback; it returns a result only when no stage
\* failed.
C17_EngineRaises ==
    \A w \in Workers :
        Finished(w) =>
            IF CallFails(w)
            THEN /\ response[w].kind = "raised"
                 /\ DOMAIN response[w] = {"kind", "error"}
            ELSE /\ response[w].kind = "returned"
                 /\ {"similarity_score", "feedback"} \subseteq DOMAIN response[w].value

\* C17 witness: a silent learner, who would be scored 0, whose reference cannot
\* be loaded: the call ends with the exception of load_audio.
C17_Witness ==
    \E w \in Workers :
        /\ Finished(w)
        /\ request[w].user_file = AudioFile(RecordingB, 22050)
        /\ request[w].reference_file = UnreadableFile
        /\ response[w] = Raised("load_audio")

\* C18: for a learner recording with an empty buffer the comparison ends with
\* InvalidAudioError raised by feature extraction, so it never returns a score.
C18_EmptyBufferRejected ==
    \A w \in Workers :
        Finished(w) /\ request[w].user_file.kind = "audio"
                    /\ request[w].user_file.samples = 0 =>
            response[w] = Raised("InvalidAudioError")

(***************************************************************************)
(* The server (main.py).  check_pronunciation and health_check are         *)
(* `async def` handlers of one uvicorn process (510-515): each runs on the *)
(* event loop, and a handler keeps the loop until it awaits or returns.    *)
(* check_pronunciation contains no await: it calls                         *)
(* audio_processor.compare_pronunciation directly (155), so the loop is    *)
(* taken from the start of the handler to its return.                      *)
(*                                                                         *)
(* request[c] is the request of client c, response[c] what the server has  *)
(* for it: nothing yet, the comparison in progress, or the HTTP response.  *)
(* Tokens: rating "error" is the fallback's rating (line 175), "N/A" the   *)
(* rating without a comparison (214, 236); a missing word (None or empty,  *)
(* both false at line 146) is "", a missing score (None) is NoValue.       *)
(***************************************************************************)
MaxClients == 2

Clients == 1..MaxClients

allowed_extensions == {".wav", ".mp3", ".m4a", ".ogg", ".flac", ".3gp", ".amr"}

\* The reference_audio directory: the words that have a reference recording.
ReferenceAudio == [word \in {"salamat"} |-> AudioFile(ReferenceRecording, 22050)]

FormExtensions == {".wav", ".exe"}
FormLevels == {"advanced", "expert"}
FormWords == {"", "kumusta", "salamat"}
UploadFiles == {UnreadableFile, AudioFile(RecordingA, 22050)}

HealthRequest == [kind |-> "health"]
CheckRequests ==
    [kind : {"check"}, ext : FormExtensions, level : FormLevels,
     word : FormWords, user_file : UploadFiles]

\* validated_level without the replacement of lines 130-131.
validated_level_unchecked(level) == level

\* lines 129-131
validated_level(level) == IF level \notin Levels THEN "beginner" ELSE level

\* lines 146-151: a word was given and its reference recording exists
needs_comparison(form) ==
    /\ form.ext \in allowed_extensions
    /\ form.word # ""
    /\ form.word \in DOMAIN ReferenceAudio

\* lines 155-159: the arguments of compare_pronunciation
engine_call(form) ==
    [user_file |-> form.user_file,
     reference_file |-> ReferenceAudio[form.word],
     level |-> validated_level(form.level)]

ErrorFeedback ==
    [overall |-> "msg_error", rating |-> "error", details |-> <<>>,
     tips |-> "tips_retry"]

CheckResponse(form, level, pronunciation_score, feedback) ==
    [status_code |-> 200, status |-> "success",
     data |-> [word |-> form.word, level |-> level,
               pronunciation_score |-> pronunciation_score,
               feedback |-> feedback]]

\* check_pronunciation_response answering a failed comparison with the dummy
\* score and an ordinary rating.
check_pronunciation_response_hidden_fallback(form, comparison, dummy_score) ==
    LET level == validated_level(form.level)
    IN IF form.ext \notin allowed_extensions
       THEN [status_code |-> 500, detail |-> "Error processing audio"]
       ELSE IF form.word = ""
       THEN CheckResponse(form, level, NoValue,
                          [overall |-> "msg_no_word", rating |-> "N/A",
                           details |-> <<>>, tips |-> "tips_send_word"])
       ELSE IF form.word \notin DOMAIN ReferenceAudio
       THEN CheckResponse(form, level, NoValue,
                          [overall |-> "msg_no_reference", rating |-> "N/A",
                           details |-> <<>>, tips |-> "tips_contact_admin"])
       ELSE IF comparison.kind = "returned"
       THEN CheckResponse(form, level, comparison.value.similarity_score,
                          comparison.value.feedback)
       ELSE CheckResponse(form, level, R(dummy_score),
                          [overall |-> overall_message(R(dummy_score)),
                           rating |-> overall_rating(R(dummy_score)),
                           details |-> <<>>, tips |-> "tips_retry"])

\* check_pronunciation_response answering a word without reference recording
\* with a dummy score, as the "demo mode" of the message at line 182 would.
check_pronunciation_response_demo_score(form, comparison, dummy_score) ==
    LET level == validated_level(form.level)
    IN IF form.ext \notin allowed_extensions
       THEN [status_code |-> 500, detail |-> "Error processing audio"]
       ELSE IF form.word = ""
       THEN CheckResponse(form, level, NoValue,
                          [overall |-> "msg_no_word", rating |-> "N/A",
                           details |-> <<>>, tips |-> "tips_send_word"])
       ELSE IF form.word \notin DOMAIN ReferenceAudio
       THEN CheckResponse(form, level, R(75),
                          [overall |-> "msg_no_reference", rating |-> "N/A",
                           details |-> <<>>, tips |-> "tips_contact_admin"])
       ELSE IF comparison.kind = "returned"
       THEN CheckResponse(form, level, comparison.value.similarity_score,
                          comparison.value.feedback)
       ELSE CheckResponse(form, level, R(dummy_score), ErrorFeedback)

\* check_pronunciation (98-253) from the outcome of the comparison on, if one
\* was made; dummy_score is the value random.randint(75, 90) returns.
check_pronunciation_response(form, comparison, dummy_score) ==
    LET level == validated_level(form.level)
    IN IF form.ext \notin allowed_extensions
       THEN \* the HTTPException(400) of line 123 is caught at line 249
            [status_code |-> 500, detail |-> "Error processing audio"]
       ELSE IF form.word = ""
       THEN CheckResponse(form, level, NoValue,
                          [overall |-> "msg_no_word", rating |-> "N/A",
                           details |-> <<>>, tips |-> "tips_send_word"])
       ELSE IF form.word \notin DOMAIN ReferenceAudio
       THEN CheckResponse(form, level, NoValue,
                          [overall |-> "msg_no_reference", rating |-> "N/A",
                           details |-> <<>>, tips |-> "tips_contact_admin"])
       ELSE IF comparison.kind = "returned"
       THEN CheckResponse(form, level, comparison.value.similarity_score,
                          comparison.value.feedback)
       ELSE CheckResponse(form, level, R(dummy_score), ErrorFeedback)

HealthResponse == [status_code |-> 200, status |-> "healthy"]

InitServer ==
    /\ request = [c \in Clients |-> NoRequest]
    /\ response = [c \in Clients |-> NoResponse]
    /\ audio_processor = AudioProcessor(DefaultSampleRate)
    /\ conversation_engine = ConversationEngine
    /\ now = 0
    /\ reference_dir = ReferenceDir

Pending(c) == request[c] # NoRequest /\ response[c] = NoResponse
Comparing(c) == response[c] # NoResponse /\ response[c].kind = "comparing"
Answered(c) == response[c] # NoResponse /\ response[c].kind = "http"
LoopIdle == \A c \in Clients : ~Comparing(c)

Http(resp) == [kind |-> "http", http |-> resp]

\* Client c sends a request.
Arrive(c) ==
    /\ request[c] = NoRequest
    /\ \E form \in CheckRequests \cup {HealthRequest} :
          request' = [request EXCEPT ![c] = form]
    /\ UNCHANGED <<response, audio_processor, conversation_engine, now, reference_dir>>

\* The event loop, when no handler holds it, starts the handler of c's request.
\* health_check and a check without comparison return at once; a check with a
\* comparison enters compare_pronunciation.
StartHandler(c) ==
    /\ Pending(c)
    /\ LoopIdle
    /\ response' = [response EXCEPT ![c] =
           IF request[c].kind = "health" THEN Http(HealthResponse)
           ELSE IF needs_comparison(request[c])
           THEN [kind |-> "comparing", call |-> engine_call(request[c])]
           ELSE Http(check_pronunciation_response(request[c], NoValue, 0))]
    /\ UNCHANGED <<request, audio_processor, conversation_engine, now, reference_dir>>

\* compare_pronunciation returns or raises; the handler builds its response.
FinishComparison(c) ==
    /\ Comparing(c)
    /\ \E librosa_rejects_empty \in BOOLEAN :
          LET call == response[c].call
              comparison ==
                  compare_pronunciation_files(audio_processor, call.user_file,
                                              call.reference_file, call.level,
                                              librosa_rejects_empty)
          IN IF comparison.kind = "returned"
             THEN response' = [response EXCEPT ![c] =
                      Http(check_pronunciation_response(request[c], comparison, 0))]
             ELSE \E dummy_score \in 75..90 :
                      response' = [response EXCEPT ![c] =
                          Http(check_pronunciation_response(request[c], comparison,
                                                            dummy_score))]
    /\ UNCHANGED <<request, audio_processor, conversation_engine, now, reference_dir>>

\* Client c receives its response.
Receive(c) ==
    /\ Answered(c)
    /\ request' = [request EXCEPT ![c] = NoRequest]
    /\ response' = [response EXCEPT ![c] = NoResponse]
    /\ UNCHANGED <<audio_processor, conversation_engine, now, reference_dir>>

NextServer ==
    \E c \in Clients :
        \/ Arrive(c)
        \/ StartHandler(c)
        \/ FinishComparison(c)
        \/ Receive(c)

SpecServer == InitServer /\ [][NextServer]_vars

\* C16: while the comparison of one pronunciation check is being computed, the
\* server can start the handler of any other request that has arrived.
C16_ServerNotBlocked ==
    \A c, d \in Clients :
        Comparing(c) /\ Pending(d) => ENABLED StartHandler(d)

\* The level the endpoint is to use for a submitted level.
ExpectedLevel(level) ==
    IF level \in {"beginner", "intermediate", "advanced"} THEN level ELSE "beginner"

CheckAnswered(c) ==
    Answered(c) /\ request[c].kind = "check" /\ response[c].http.status_code = 200

\* C19: every call of compare_pronunciation the endpoint makes has a level in
\* {beginner, intermediate, advanced}, namely the submitted level or, for any
\* other submitted value, beginner; the response reports that same level.
C19_ValidLevel ==
    \A c \in Clients :
        /\ Comparing(c) =>
               /\ response[c].call.level \in {"beginner", "intermediate", "advanced"}
               /\ response[c].call.level = ExpectedLevel(request[c].level)
        /\ CheckAnswered(c) =>
               response[c].http.data.level = ExpectedLevel(request[c].level)

\* C19 witness: a check submitted with the level "expert" whose comparison ran
\* and whose response reports beginner, with the beginner's tip.
C19_Witness ==
    \E c \in Clients :
        /\ CheckAnswered(c)
        /\ request[c].level = "expert"
        /\ response[c].http.data.level = "beginner"
        /\ response[c].http.data.feedback.tips = "tips_beginner"

NormalRatings == {"excellent", "good", "fair", "needs_improvement", "fail"}
DummyScores == {R(n) : n \in 75..90}

\* What compare_pronunciation does for c's check when run on its own.
ExpectedComparison(c, librosa_rejects_empty) ==
    compare_pronunciation_files(AudioProcessor(DefaultSampleRate),
                                request[c].user_file,
                                ReferenceAudio[request[c].word],
                                ExpectedLevel(request[c].level),
                                librosa_rejects_empty)

\* C20: in a response of the check endpoint whose comparison was made, the
\* score is a dummy score (75..90) with rating "error" and an empty details
\* list exactly when compare_pronunciation raised; otherwise score and feedback
\* are those compare_pronunciation returned, with a normal rating.  A response
\* without comparison has no score and never the dummy.
C20_FallbackExplicit ==
    \A c \in Clients :
        CheckAnswered(c) =>
            LET data == response[c].http.data
            IN IF ~needs_comparison(request[c])
               THEN data.pronunciation_score = NoValue /\ data.feedback.rating = "N/A"
               ELSE \E b \in BOOLEAN :
                       LET comparison == ExpectedComparison(c, b)
                       IN IF comparison.kind = "raised"
                          THEN /\ data.pronunciation_score \in DummyScores
                               /\ data.feedback.rating = "error"
                               /\ data.feedback.details = <<>>
                          ELSE /\ data.pronunciation_score =
                                      comparison.value.similarity_score
                               /\ data.feedback = comparison.value.feedback
                               /\ data.feedback.rating \in NormalRatings

\* C20 witness: an upload that cannot be loaded, answered with the dummy score
\* 90, the rating "error" and no details.
C20_Witness ==
    \E c \in Clients :
        /\ CheckAnswered(c)
        /\ request[c].user_file = UnreadableFile
        /\ response[c].http.data.pronunciation_score = R(90)
        /\ response[c].http.data.feedback.rating = "error"
        /\ response[c].http.data.feedback.details = <<>>

\* C21: a pronunciation check whose file extension is not in the allowed list
\* is answered with HTTP 400.
C21_ClientErrorStatus ==
    \A c \in Clients :
        Answered(c) /\ request[c].kind = "check"
                    /\ request[c].ext \notin {".wav", ".mp3", ".m4a", ".ogg",
                                              ".flac", ".3gp", ".amr"} =>
            response[c].http.status_code = 400

\* The words that have a reference recording in the reference directory.
HasReference(word) == word \in DOMAIN ReferenceAudio

\* C29: a check with an allowed extension is answered with a score exactly
\* when a word was given and a reference recording exists for it; otherwise
\* the score is null and the rating "N/A"; and the comparison is only ever run
\* for a given word that has a reference recording.
C29_ScoreIffWordAndReference ==
    \A c \in Clients :
        /\ CheckAnswered(c) =>
              LET data == response[c].http.data
                  comparable == request[c].word # "" /\ HasReference(request[c].word)
              IN /\ data.pronunciation_score # NoValue <=> comparable
                 /\ ~comparable => /\ data.pronunciation_score = NoValue
                                   /\ data.feedback.rating = "N/A"
        /\ Comparing(c) => request[c].word # "" /\ HasReference(request[c].word)

\* C29 witness: at one moment, a check of "salamat" answered with a score, a
\* check of "kumusta" (no reference recording) answered without one.
C29_Witness ==
    \E c, d \in Clients :
        /\ CheckAnswered(c) /\ CheckAnswered(d)
        /\ request[c].word = "salamat"
        /\ response[c].http.data.pronunciation_score # NoValue
        /\ request[d].word = "kumusta"
        /\ response[d].http.data.pronunciation_score = NoValue
        /\ response[d].http.data.feedback.rating = "N/A"

(***************************************************************************)
(* compare_pronunciation on recordings whose DTW distance lies just above  *)
(* a boundary of the calibration (2500, 20000): the score handed to        *)
(* generate_feedback (line 371) is the unrounded one, the returned         *)
(* similarity_score is round(similarity_score, 2) (line 378).              *)
(***************************************************************************)
BandFrameValues == {0, 2501, 6750, 20001}

BandMfccSet == {<<v>> : v \in BandFrameValues}

BandUserFeatures ==
    [pitch_mean : {R(150)}, rms_mean : {Frac(1, 10000), Frac(1, 20)},
     duration : {Frac(3, 2), R(3)}, mfcc : BandMfccSet]
BandReferenceFeatures ==
    [pitch_mean : {R(150)}, rms_mean : {Frac(1, 20)},
     duration : {Frac(3, 2)}, mfcc : BandMfccSet]

SubmitBand ==
    /\ request = NoRequest
    /\ \E u \in BandUserFeatures, r \in BandReferenceFeatures, lvl \in Levels :
          request' = [kind |-> "compare", user |-> u, reference |-> r, level |-> lvl]
    /\ response' = NoResponse
    /\ UNCHANGED <<audio_processor, conversation_engine, now, reference_dir>>

ComparePronunciationBand ==
    /\ request # NoRequest
    /\ response = NoResponse
    /\ response' = compare_pronunciation(request.user, request.reference, request.level)
    /\ UNCHANGED request
    /\ UNCHANGED <<audio_processor, conversation_engine, now, reference_dir>>

ReturnBand ==
    /\ response # NoResponse
    /\ request' = NoRequest
    /\ response' = NoResponse
    /\ UNCHANGED <<audio_processor, conversation_engine, now, reference_dir>>

NextBand == SubmitBand \/ ComparePronunciationBand \/ ReturnBand

SpecBand == Init /\ [][NextBand]_vars

HasOverallEntry(details) == \E i \in DOMAIN details : details[i].aspect = "overall"

\* C22: in every result, the rating is the band of the returned
\* similarity_score (>= 85, >= 70, >= 50, >= 30, else fail), and the overall
\* detail entry is present exactly when the returned score is below 30.
C22_RatingMatchesReturnedScore ==
    response # NoResponse =>
        /\ response.feedback.rating = RatingTable(response.similarity_score)
        /\ HasOverallEntry(response.feedback.details)
               <=> Lt(response.similarity_score, R(30))

(***************************************************************************)
(* The conversation engine (conversation_engine.py) and its endpoints      *)
(* (main.py 287-439).                                                      *)
(*                                                                         *)
(* conversation_engine.sessions maps a session id to its session: mode,    *)
(* level, system_prompt, history and created_at.  A history entry is its   *)
(* role and content; its timestamp, which nothing reads, is left out.  A   *)
(* prompt is its parts in order: the system prompt, then one line per      *)
(* history entry used, each a speaker label and the content.  now is the   *)
(* wall clock in whole seconds, the resolution of the strftime format of   *)
(* main.py 309.  The server is the one started with an API key, so that    *)
(* conversation_engine exists (main.py 47-48).                             *)
(*                                                                         *)
(* Every handler here runs to its end without yielding the event loop      *)
(* (send_message is awaited but contains no await itself), so a handler is *)
(* one step.  The parsing of the reply and the synthesis of its audio      *)
(* (193-202), whose failure is swallowed and which touch no session, are   *)
(* left out of the result.                                                 *)
(***************************************************************************)
MaxTime == 1

MaxEntries == 7

\* conversation_engine.py 92-146: dict.get with the beginner / free_talk default
get_system_prompt(mode, level) ==
    <<"base_prompt",
      IF level \in {"beginner", "intermediate", "advanced"} THEN level ELSE "beginner",
      IF mode \in {"shadowing", "word_drill", "roleplay", "free_talk"}
      THEN mode ELSE "free_talk">>

\* conversation_engine.py 31-58; created_at is datetime.now() of line 50
create_session(self, session_id, mode, level, created_at) ==
    LET session == [mode |-> mode, level |-> level,
                    system_prompt |-> get_system_prompt(mode, level),
                    history |-> <<>>, created_at |-> created_at]
    IN [self |-> [self EXCEPT !.sessions =
                     [id \in DOMAIN self.sessions \cup {session_id} |->
                         IF id = session_id THEN session ELSE self.sessions[id]]],
        result |-> Returned([session_id |-> session_id, mode |-> mode,
                             level |-> level, status |-> "created"])]

\* history[-n:]
LastEntries(history, n) ==
    IF Len(history) <= n THEN history
    ELSE SubSeq(history, Len(history) - n + 1, Len(history))

\* conversation_engine.py 173-178
PromptLine(msg) ==
    [speaker |-> IF msg.role = "user" THEN "user_label" ELSE "ai_label",
     content |-> msg.content]
FullPrompt(session, entries) ==
    [system_prompt |-> session.system_prompt,
     lines |-> [i \in DOMAIN entries |-> PromptLine(entries[i])]]

\* send_message forgetting the user message when the model call fails.
send_message_rollback(self, session_id, user_message, generate_content) ==
    IF session_id \notin DOMAIN self.sessions
    THEN [self |-> self, result |-> Raised("ValueError"), full_prompt |-> NoValue]
    ELSE LET session == self.sessions[session_id]
             with_user == Append(session.history,
                                 [role |-> "user", content |-> user_message])
             full_prompt == FullPrompt(session, LastEntries(with_user, 5))
         IN IF generate_content.kind = "returned"
            THEN [self |-> [self EXCEPT !.sessions[session_id].history =
                               Append(with_user, [role |-> "assistant",
                                                  content |-> generate_content.value])],
                  result |-> Returned([status |-> "success",
                                       ai_message |-> generate_content.value,
                                       session_id |-> session_id]),
                  full_prompt |-> full_prompt]
            ELSE [self |-> self,
                  result |-> Returned([status |-> "error",
                                       error |-> generate_content.error,
                                       session_id |-> session_id]),
                  full_prompt |-> full_prompt]

\* send_message opening a session for an id it does not know.
send_message_creating_session(self, session_id, user_message, generate_content) ==
    LET known == IF session_id \in DOMAIN self.sessions THEN self
                 ELSE create_session(self, session_id, "free_talk", "beginner", 0).self
        session == known.sessions[session_id]
        with_user == Append(session.history,
                            [role |-> "user", content |-> user_message])
        full_prompt == FullPrompt(session, LastEntries(with_user, 5))
    IN IF generate_content.kind = "returned"
       THEN [self |-> [known EXCEPT !.sessions[session_id].history =
                          Append(with_user, [role |-> "assistant",
                                             content |-> generate_content.value])],
             result |-> Returned([status |-> "success",
                                  ai_message |-> generate_content.value,
                                  session_id |-> session_id]),
             full_prompt |-> full_prompt]
       ELSE [self |-> [known EXCEPT !.sessions[session_id].history = with_user],
             result |-> Returned([status |-> "error",
                                  error |-> generate_content.error,
                                  session_id |-> session_id]),
             full_prompt |-> full_prompt]

\* send_message with a prompt window of six entries.
send_message_window_6(self, session_id, user_message, generate_content) ==
    IF session_id \notin DOMAIN self.sessions
    THEN [self |-> self, result |-> Raised("ValueError"), full_prompt |-> NoValue]
    ELSE LET session == self.sessions[session_id]
             with_user == Append(session.history,
                                 [role |-> "user", content |-> user_message])
             full_prompt == FullPrompt(session, LastEntries(with_user, 6))
         IN IF generate_content.kind = "returned"
            THEN [self |-> [self EXCEPT !.sessions[session_id].history =
                               Append(with_user, [role |-> "assistant",
                                                  content |-> generate_content.value])],
                  result |-> Returned([status |-> "success",
                                       ai_message |-> generate_content.value,
                                       session_id |-> session_id]),
                  full_prompt |-> full_prompt]
            ELSE [self |-> [self EXCEPT !.sessions[session_id].history = with_user],
                  result |-> Returned([status |-> "error",
                                       error |-> generate_content.error,
                                       session_id |-> session_id]),
                  full_prompt |-> full_prompt]

\* conversation_engine.py 148-219.  generate_content is what the model call of
\* lines 182-183 does: it returns the reply's text or raises.
send_message(self, session_id, user_message, generate_content) ==
    IF session_id \notin DOMAIN self.sessions
    THEN [self |-> self, result |-> Raised("ValueError"), full_prompt |-> NoValue]
    ELSE LET session == self.sessions[session_id]
             with_user == Append(session.history,
                                 [role |-> "user", content |-> user_message])
             full_prompt == FullPrompt(session, LastEntries(with_user, 5))
         IN IF generate_content.kind = "returned"
            THEN [self |-> [self EXCEPT !.sessions[session_id].history =
                               Append(with_user, [role |-> "assistant",
                                                  content |-> generate_content.value])],
                  result |-> Returned([status |-> "success",
                                       ai_message |-> generate_content.value,
                                       session_id |-> session_id]),
                  full_prompt |-> full_prompt]
            ELSE [self |-> [self EXCEPT !.sessions[session_id].history = with_user],
                  result |-> Returned([status |-> "error",
                                       error |-> generate_content.error,
                                       session_id |-> session_id]),
                  full_prompt |-> full_prompt]

\* [msg for msg in history if msg["role"] == role]
MessagesOfRole(history, role) == SelectSeq(history, LAMBDA msg : msg.role = role)

\* get_session_summary counting every entry as a turn.
get_session_summary_turns_all(self, session_id) ==
    IF session_id \notin DOMAIN self.sessions THEN Raised("ValueError")
    ELSE LET session == self.sessions[session_id]
             history == session.history
         IN Returned([session_id |-> session_id, mode |-> session.mode,
                      level |-> session.level, created_at |-> session.created_at,
                      total_turns |-> Len(history),
                      duration_estimate |-> Len(history) * 30,
                      user_messages_count |-> Len(MessagesOfRole(history, "user")),
                      ai_messages_count |-> Len(MessagesOfRole(history, "assistant"))])

\* conversation_engine.py 290-319
get_session_summary(self, session_id) ==
    IF session_id \notin DOMAIN self.sessions THEN Raised("ValueError")
    ELSE LET session == self.sessions[session_id]
             history == session.history
             user_messages == MessagesOfRole(history, "user")
             ai_messages == MessagesOfRole(history, "assistant")
         IN Returned([session_id |-> session_id, mode |-> session.mode,
                      level |-> session.level, created_at |-> session.created_at,
                      total_turns |-> Len(user_messages),
                      duration_estimate |-> Len(history) * 30,
                      user_messages_count |-> Len(user_messages),
                      ai_messages_count |-> Len(ai_messages)])

\* conversation_engine.py 321-370 (ConversationEngine.generate_feedback)
generate_session_feedback(self, session_id, generate_content) ==
    IF session_id \notin DOMAIN self.sessions THEN Raised("ValueError")
    ELSE IF generate_content.kind = "returned"
    THEN Returned([status |-> "success", feedback |-> generate_content.value,
                   session_id |-> session_id])
    ELSE Returned([status |-> "error", error |-> generate_content.error,
                   session_id |-> session_id])

\* main.py 309: f"session_{datetime.now().strftime('%Y%m%d_%H%M%S')}"
SessionId(t) == <<"session", t>>

Times == 0..MaxTime

UserTexts == {"Maayong buntag", "Salamat"}

\* What the model call does: it raises, or returns the text of a reply.
ModelOutcomes == {Raised("generate_content"), Returned("Maayong buntag! Kumusta ka?")}

\* scenario_manager.scenarios (conversation_engine.py 381-442)
Scenarios == {"market_001", "taxi_001", "restaurant_001"}

\* The forms clients send; an absent text or scenario_id (None) is "".
CreateForms ==
    [kind : {"create"}, mode : {"roleplay"}, level : {"beginner"},
     scenario_id : {"", "market_001"}]
MessageForms ==
    [kind : {"message"}, session_id : {SessionId(t) : t \in Times},
     audio : {FALSE}, text : {""} \cup UserTexts]
    \cup [kind : {"message"}, session_id : {SessionId(0)},
          audio : {TRUE}, text : {""}]
SummaryForms == [kind : {"summary"}, session_id : {SessionId(t) : t \in Times}]
FeedbackForms == [kind : {"feedback"}, session_id : {SessionId(t) : t \in Times}]

InitConversation ==
    /\ request = NoRequest
    /\ response = NoResponse
    /\ audio_processor = AudioProcessor(DefaultSampleRate)
    /\ conversation_engine = ConversationEngine
    /\ now = 0
    /\ reference_dir = ReferenceDir

RECURSIVE EntriesIn(_, _)
EntriesIn(sessions, ids) ==
    IF ids = {} THEN 0
    ELSE LET id == CHOOSE i \in ids : TRUE
         IN Len(sessions[id].history) + EntriesIn(sessions, ids \ {id})

\* The number of history entries the store holds.
StoredEntries == EntriesIn(conversation_engine.sessions, DOMAIN conversation_engine.sessions)

\* A second passes.
Tick ==
    /\ now < MaxTime
    /\ now' = now + 1
    /\ UNCHANGED <<request, response, audio_processor, conversation_engine, reference_dir>>

\* A client sends a request; messages stop when the store holds MaxEntries.
ArriveConversation ==
    /\ request = NoRequest
    /\ \E form \in CreateForms \cup MessageForms \cup SummaryForms \cup FeedbackForms :
          /\ form.kind = "message" => StoredEntries + 2 <= MaxEntries
          /\ request' = form
    /\ UNCHANGED <<response, audio_processor, conversation_engine, now, reference_dir>>

Waiting(kind) == request # NoRequest /\ request.kind = kind /\ response = NoResponse

\* What a handler leaves: the engine call's outcome (NoValue when the engine
\* was not called), the prompt and the model's outcome of that call, and the
\* HTTP response.
Handled(engine, full_prompt, generate_content, http) ==
    [kind |-> "http", engine |-> engine, full_prompt |-> full_prompt,
     generate_content |-> generate_content, http |-> http]

ServerError == [status_code |-> 500]

\* main.py 287-329
CreateConversationSession ==
    /\ Waiting("create")
    /\ LET session_id == SessionId(now)
           created == create_session(conversation_engine, session_id,
                                     request.mode, request.level, now)
           scenario ==
               IF request.mode = "roleplay" /\ request.scenario_id # ""
                                            /\ request.scenario_id \in Scenarios
               THEN request.scenario_id ELSE ""
       IN /\ conversation_engine' = created.self
          /\ response' = Handled(created.result, NoValue, NoValue,
                 [status_code |-> 200, status |-> "success",
                  data |-> [session_info |-> created.result.value,
                            scenario |-> scenario]])
    /\ UNCHANGED <<request, audio_processor, now, reference_dir>>

\* main.py 332-401.  With an upload the handler reaches line 367, where the
\* name speech_recognition_service is not defined (its import and its
\* construction are commented out at 13 and 59): NameError, caught at 398.
SendConversationMessage ==
    /\ Waiting("message")
    /\ IF request.audio \/ request.text = ""
       THEN /\ response' = Handled(NoValue, NoValue, NoValue, ServerError)
            /\ UNCHANGED conversation_engine
       ELSE \E generate_content \in ModelOutcomes :
               LET sent == send_message(conversation_engine, request.session_id,
                                        request.text, generate_content)
               IN /\ conversation_engine' = sent.self
                  /\ response' =
                        IF sent.result.kind = "raised"
                        THEN Handled(sent.result, NoValue, NoValue, ServerError)
                        ELSE Handled(sent.result, sent.full_prompt, generate_content,
                                     [status_code |-> 200, status |-> "success",
                                      data |-> sent.result.value])
    /\ UNCHANGED <<request, audio_processor, now, reference_dir>>

\* main.py 404-420
GetSessionSummary ==
    /\ Waiting("summary")
    /\ LET summary == get_session_summary(conversation_engine, request.session_id)
       IN response' =
             IF summary.kind = "raised"
             THEN Handled(summary, NoValue, NoValue, ServerError)
             ELSE Handled(summary, NoValue, NoValue,
                          [status_code |-> 200, status |-> "success",
                           data |-> summary.value])
    /\ UNCHANGED <<request, audio_processor, conversation_engine, now, reference_dir>>

\* main.py 423-439
GetSessionFeedback ==
    /\ Waiting("feedback")
    /\ \E generate_content \in ModelOutcomes :
          LET feedback == generate_session_feedback(conversation_engine,
                              request.session_id, generate_content)
          IN response' =
                IF feedback.kind = "raised"
                THEN Handled(feedback, NoValue, NoValue, ServerError)
                ELSE Handled(feedback, NoValue, generate_content,
                             [status_code |-> 200, status |-> "success",
                              data |-> feedback.value])
    /\ UNCHANGED <<request, audio_processor, conversation_engine, now, reference_dir>>

\* The client receives its response.
ReceiveConversation ==
    /\ request # NoRequest
    /\ response # NoResponse
    /\ request' = NoRequest
    /\ response' = NoResponse
    /\ UNCHANGED <<audio_processor, conversation_engine, now, reference_dir>>

NextConversation ==
    \/ Tick
    \/ ArriveConversation
    \/ CreateConversationSession
    \/ SendConversationMessage
    \/ GetSessionSummary
    \/ GetSessionFeedback
    \/ ReceiveConversation

SpecConversation == InitConversation /\ [][NextConversation]_vars

Sessions == conversation_engine.sessions

\* The step in which the handler of the pending request of this kind runs.
Handles(kind) == Waiting(kind) /\ response' # NoResponse

HandledRequest(kind) ==
    request # NoRequest /\ request.kind = kind /\ response # NoResponse

IsPrefix(a, b) == Len(a) <= Len(b) /\ \A i \in DOMAIN a : a[i] = b[i]

CountRole(history, role) == Cardinality({i \in DOMAIN history : history[i].role = role})

\* C23: a session-create request returns a session id that no existing session
\* uses, and leaves the history of every existing session as it was.
C23_FreshSessionId ==
    [][Handles("create") =>
          /\ response'.http.data.session_info.session_id \notin DOMAIN Sessions
          /\ \A id \in DOMAIN Sessions :
                /\ id \in DOMAIN conversation_engine'.sessions
                /\ conversation_engine'.sessions[id].history = Sessions[id].history]_vars

\* C24: when the model call of a send_message fails, the call returns status
\* "error" (it does not raise), and the history grows by exactly the user
\* message; and a user message left last in the history by such a failure is
\* the line before the current message in the prompt of the next send_message.
C24_FailedCallKeepsUserMessage ==
    [][Handles("message") /\ response'.full_prompt # NoValue =>
          LET before == Sessions[request.session_id].history
              after == conversation_engine'.sessions[request.session_id].history
              lines == response'.full_prompt.lines
          IN /\ response'.generate_content.kind = "raised" =>
                   /\ response'.engine.kind = "returned"
                   /\ response'.engine.value.status = "error"
                   /\ after = Append(before, [role |-> "user", content |-> request.text])
             /\ before # <<>> /\ before[Len(before)].role = "user" =>
                   /\ Len(lines) >= 2
                   /\ lines[Len(lines) - 1] =
                          [speaker |-> "user_label",
                           content |-> before[Len(before)].content]]_vars

\* C24 witness: a second failed message in a row: the call returned "error",
\* its prompt ends with the earlier user message and then the current one, and
\* both are the last entries of the history.
C24_Witness ==
    /\ HandledRequest("message")
    /\ response.full_prompt # NoValue
    /\ response.generate_content.kind = "raised"
    /\ response.engine.value.status = "error"
    /\ LET lines == response.full_prompt.lines
           history == Sessions[request.session_id].history
       IN /\ Len(lines) >= 2
          /\ lines[Len(lines) - 1] = [speaker |-> "user_label", content |-> "Salamat"]
          /\ lines[Len(lines)] = [speaker |-> "user_label", content |-> "Maayong buntag"]
          /\ history[Len(history) - 1] = [role |-> "user", content |-> "Salamat"]
          /\ history[Len(history)] = [role |-> "user", content |-> "Maayong buntag"]

WellFormedHistory(history) ==
    /\ \A i \in DOMAIN history :
          history[i].role = "assistant" => i > 1 /\ history[i - 1].role = "user"
    /\ CountRole(history, "assistant") <= CountRole(history, "user")

\* C25: every step leaves every session in the store with a history that
\* extends the one it had, in which every assistant entry directly follows a
\* user entry and assistant entries are no more than user entries.
C25_HistoryAppendOnly ==
    [][/\ \A id \in DOMAIN Sessions :
             /\ id \in DOMAIN conversation_engine'.sessions
             /\ IsPrefix(Sessions[id].history, conversation_engine'.sessions[id].history)
       /\ \A id \in DOMAIN conversation_engine'.sessions :
             WellFormedHistory(conversation_engine'.sessions[id].history)]_vars

\* The request makes its handler call the engine method.
CallsEngine(form) == form.kind = "message" => ~form.audio /\ form.text # ""

\* C26: send_message, get_session_summary and generate_feedback called with a
\* session id that is not in the store raise ValueError and leave the store
\* as it was.
C26_UnknownSessionRejected ==
    [][/\ \E kind \in {"message", "summary", "feedback"} : Handles(kind)
       /\ CallsEngine(request)
       /\ request.session_id \notin DOMAIN Sessions
       => /\ response'.engine = Raised("ValueError")
          /\ conversation_engine' = conversation_engine]_vars

\* C26 witness: a message for a session id that was never created, refused
\* with ValueError while another session holds a history.
C26_Witness ==
    /\ HandledRequest("message")
    /\ request.text # "" /\ ~request.audio
    /\ request.session_id \notin DOMAIN Sessions
    /\ response.engine = Raised("ValueError")
    /\ \E id \in DOMAIN Sessions : Len(Sessions[id].history) >= 2

\* C27: the prompt of a send_message is the session's system prompt followed
\* by the last min(5, n) entries of the history as it is when the model is
\* called, in order, and its last line is the user message of this call.
C27_PromptWindow ==
    HandledRequest("message") /\ response.full_prompt # NoValue =>
        LET session == Sessions[request.session_id]
            history == session.history
            at_call == IF response.engine.value.status = "success"
                       THEN SubSeq(history, 1, Len(history) - 1) ELSE history
            lines == response.full_prompt.lines
            n == Len(lines)
        IN /\ response.full_prompt.system_prompt = session.system_prompt
           /\ n = IF Len(at_call) < 5 THEN Len(at_call) ELSE 5
           /\ \A i \in 1..n :
                 LET msg == at_call[Len(at_call) - n + i]
                 IN /\ lines[i].content = msg.content
                    /\ lines[i].speaker = "user_label" <=> msg.role = "user"
           /\ n >= 1
           /\ lines[n] = [speaker |-> "user_label", content |-> request.text]

\* C27 witness: a message sent on a history of five entries: the prompt has
\* five lines and leaves out the oldest of the six entries.
C27_Witness ==
    /\ HandledRequest("message")
    /\ response.full_prompt # NoValue
    /\ response.engine.value.status = "success"
    /\ Len(Sessions[request.session_id].history) = 7
    /\ Len(response.full_prompt.lines) = 5
    /\ response.full_prompt.lines[5].content = request.text

MaxWordLen == 2

Chars == {"S", "a", " ", "-", "?", "'"}

Words == UNION {[1..n -> Chars] : n \in 1..MaxWordLen}

\* str.lower on the characters used
lower(c) == IF c = "S" THEN "s" ELSE c

\* line 85: lower(), " " -> "_", the characters ' , ? ! . removed, "-" -> "_"
RECURSIVE safe_word(_)
safe_word(word) ==
    IF word = <<>> THEN <<>>
    ELSE LET c == lower(Head(word))
             rest == safe_word(Tail(word))
         IN IF c \in {"'", ",", "?", "!", "."} THEN rest
            ELSE IF c \in {" ", "-"} THEN <<"_">> \o rest
            ELSE <<c>> \o rest

\* The first path of the candidates, in order, that the directory holds.
RECURSIVE FirstExisting(_, _, _)
FirstExisting(stem, exts, default) ==
    IF exts = <<>> THEN default
    ELSE IF ReferencePath(stem, Head(exts)) \in reference_dir
    THEN ReferencePath(stem, Head(exts))
    ELSE FirstExisting(stem, Tail(exts), default)

\* get_reference_audio_path trying .wav before .mp3.
get_reference_audio_path_wav_first(word) ==
    FirstExisting(safe_word(word), <<".wav", ".mp3", ".m4a", ".ogg">>,
                  ReferencePath(safe_word(word), ".mp3"))

get_reference_audio_path(word) ==
    FirstExisting(safe_word(word), <<".mp3", ".wav", ".m4a", ".ogg">>,
                  ReferencePath(safe_word(word), ".mp3"))

\* The files that can be in the directory: recordings of "sa" and "s_" in the
\* four formats, and one of "sa" in a format the function does not try.
DirectoryFiles ==
    {ReferencePath(stem, ext) : stem \in {<<"s", "a">>, <<"s", "_">>},
                                ext \in {".mp3", ".wav", ".m4a", ".ogg"}}
    \cup {ReferencePath(<<"s", "a">>, ".flac")}

\* main.py 40-41: the directory is created empty.
InitReference ==
    /\ request = NoRequest
    /\ response = NoResponse
    /\ audio_processor = AudioProcessor(DefaultSampleRate)
    /\ conversation_engine = ConversationEngine
    /\ now = 0
    /\ reference_dir = {}

AddReferenceFile ==
    /\ \E f \in DirectoryFiles \ reference_dir : reference_dir' = reference_dir \cup {f}
    /\ UNCHANGED <<request, response, audio_processor, conversation_engine, now>>

RemoveReferenceFile ==
    /\ \E f \in reference_dir : reference_dir' = reference_dir \ {f}
    /\ UNCHANGED <<request, response, audio_processor, conversation_engine, now>>

\* A caller asks for the reference recording of a word.
AskReferencePath ==
    /\ request = NoRequest
    /\ \E word \in Words : request' = [kind |-> "reference", word |-> word]
    /\ UNCHANGED <<response, audio_processor, conversation_engine, now, reference_dir>>

GetReferenceAudioPath ==
    /\ request # NoRequest
    /\ response = NoResponse
    /\ response' = [kind |-> "path", path |-> get_reference_audio_path(request.word)]
    /\ UNCHANGED <<request, audio_processor, conversation_engine, now, reference_dir>>

ReturnReferencePath ==
    /\ response # NoResponse
    /\ request' = NoRequest
    /\ response' = NoResponse
    /\ UNCHANGED <<audio_processor, conversation_engine, now, reference_dir>>

NextReference ==
    \/ AddReferenceFile
    \/ RemoveReferenceFile
    \/ AskReferencePath
    \/ GetReferenceAudioPath
    \/ ReturnReferencePath

SpecReference == InitReference /\ [][NextReference]_vars

CandidateExtensions == <<".mp3", ".wav", ".m4a", ".ogg">>

====
